---- MODULE Spec2Model ----
(***************************************************************************)
(* Model of core/src/apps/bitcoin/keychain.py: the per-coin path schemas   *)
(* (get_schemas_for_coin), the script-type path check                      *)
(* (validate_input_script_type) and the with_keychain dispatcher.          *)
(*                                                                         *)
(* A BIP-32 path component is a uint32 whose top bit is the hardened flag. *)
(* It is written here as the record [n |-> low 31 bits, h |-> top bit],    *)
(* which is the same value split in two (2^31 does not fit TLC's integers).*)
(* An Optional[...] value is <<>> for None and <<v>> for a value v.        *)
(***************************************************************************)
EXTENDS Integers, Sequences, FiniteSets, TLC

VARIABLES
    \* one call of get_schemas_for_coin, validate_input_script_type and the
    \* keychain's path check on a coin and a request
    coin, msg, patterns, schemas, valid, in_keychain,
    \* the invocations of the wrapper that with_keychain returns
    pc, req, local, pending, handler_args, error, keychains, calls

pathVars == <<coin, msg, patterns, schemas, valid, in_keychain>>
wireVars == <<pc, req, local, pending, handler_args, error, keychains, calls>>
vars == <<coin, msg, patterns, schemas, valid, in_keychain,
          pc, req, local, pending, handler_args, error, keychains, calls>>

None == <<>>
Some(v) == <<v>>

(***************************************************************************)
(* Bounds of the model.                                                    *)
(***************************************************************************)
\* number of path components appended beyond a template's length
MaxExtra == 1
\* number of dispatcher invocations that may be in flight together
MaxInvocations == 2

(***************************************************************************)
(* trezor.messages.InputScriptType                                         *)
(***************************************************************************)
SPENDADDRESS == 0
SPENDMULTISIG == 1
EXTERNAL == 2
SPENDWITNESS == 3
SPENDP2SHWITNESS == 4

(***************************************************************************)
(* Path templates.                                                         *)
(***************************************************************************)
PATTERN_BIP44 == "m/44'/coin_type'/account'/change/address_index"
PATTERN_BIP45 == "m/45'/[0-100]/change/address_index"
PATTERN_PURPOSE48 == "m/48'/coin_type'/account'/[0,1,2]'/change/address_index"
PATTERN_BIP49 == "m/49'/coin_type'/account'/change/address_index"
PATTERN_BIP84 == "m/84'/coin_type'/account'/change/address_index"
PATTERN_GREENADDRESS_A == "m/[1,4]/address_index"
PATTERN_GREENADDRESS_B == "m/3'/[1-100]'/[1,4]/address_index"
PATTERN_GREENADDRESS_SIGN_A == "m/1195487518"
PATTERN_GREENADDRESS_SIGN_B == "m/1195487518/6/address_index"
PATTERN_CASA == "m/49/coin_type/account/change/address_index"

AllPatterns ==
    { PATTERN_BIP44, PATTERN_BIP45, PATTERN_PURPOSE48, PATTERN_BIP49,
      PATTERN_BIP84, PATTERN_GREENADDRESS_A, PATTERN_GREENADDRESS_B,
      PATTERN_GREENADDRESS_SIGN_A, PATTERN_GREENADDRESS_SIGN_B, PATTERN_CASA }

BITCOIN_NAMES == { "Bitcoin", "Regtest", "Testnet" }

(***************************************************************************)
(* apps.common.paths.PathSchema: a template split at "/" into components,  *)
(* each turned into the container of the path components it admits.        *)
(***************************************************************************)
Lit(v, hard) == [kind |-> "lit", h |-> hard, a |-> v, b |-> v, s |-> {}]
Range(lo, hi, hard) == [kind |-> "range", h |-> hard, a |-> lo, b |-> hi, s |-> {}]
OneOf(set, hard) == [kind |-> "set", h |-> hard, a |-> 0, b |-> 0, s |-> set]
Word(w, hard) == [kind |-> w, h |-> hard, a |-> 0, b |-> 0, s |-> {}]

\* pattern[2:].split("/")
Components(pattern) ==
    CASE pattern = PATTERN_BIP44 ->
           << Lit(44, TRUE), Word("coin_type", TRUE), Word("account", TRUE),
              Word("change", FALSE), Word("address_index", FALSE) >>
      [] pattern = PATTERN_BIP45 ->
           << Lit(45, TRUE), Range(0, 100, FALSE),
              Word("change", FALSE), Word("address_index", FALSE) >>
      [] pattern = PATTERN_PURPOSE48 ->
           << Lit(48, TRUE), Word("coin_type", TRUE), Word("account", TRUE),
              OneOf({0, 1, 2}, TRUE),
              Word("change", FALSE), Word("address_index", FALSE) >>
      [] pattern = PATTERN_BIP49 ->
           << Lit(49, TRUE), Word("coin_type", TRUE), Word("account", TRUE),
              Word("change", FALSE), Word("address_index", FALSE) >>
      [] pattern = PATTERN_BIP84 ->
           << Lit(84, TRUE), Word("coin_type", TRUE), Word("account", TRUE),
              Word("change", FALSE), Word("address_index", FALSE) >>
      [] pattern = PATTERN_GREENADDRESS_A ->
           << OneOf({1, 4}, FALSE), Word("address_index", FALSE) >>
      [] pattern = PATTERN_GREENADDRESS_B ->
           << Lit(3, TRUE), Range(1, 100, TRUE), OneOf({1, 4}, FALSE),
              Word("address_index", FALSE) >>
      [] pattern = PATTERN_GREENADDRESS_SIGN_A ->
           << Lit(1195487518, FALSE) >>
      [] pattern = PATTERN_GREENADDRESS_SIGN_B ->
           << Lit(1195487518, FALSE), Lit(6, FALSE),
              Word("address_index", FALSE) >>
      [] pattern = PATTERN_CASA ->
           << Lit(49, FALSE), Word("coin_type", FALSE), Word("account", FALSE),
              Word("change", FALSE), Word("address_index", FALSE) >>

AccountMax == 100
AddressIndexMax == 1000000

\* PathSchema.REPLACEMENTS and the coin_type substitution
Container(c, slip44) ==
    CASE c.kind = "coin_type" -> OneOf({slip44}, c.h)
      [] c.kind = "account" -> Range(0, AccountMax, c.h)
      [] c.kind = "change" -> OneOf({0, 1}, c.h)
      [] c.kind = "address_index" -> Range(0, AddressIndexMax, c.h)
      [] c.kind = "lit" -> OneOf({c.a}, c.h)
      [] OTHER -> c

\* value in expected
Contains(c, seg) ==
    /\ seg.h = c.h
    /\ IF c.kind = "range" THEN c.a <= seg.n /\ seg.n <= c.b ELSE seg.n \in c.s

PathSchema(pattern, slip44) == [pattern |-> pattern, slip44 |-> slip44]

\* PathSchema.match: same number of components, each in its container
Match(schema, path) ==
    LET cs == Components(schema.pattern)
    IN  /\ Len(path) = Len(cs)
        /\ \A k \in 1..Len(cs) : Contains(Container(cs[k], schema.slip44), path[k])

(***************************************************************************)
(* validate_input_script_type                                              *)
(***************************************************************************)
\* Python truth value of an Optional[int]
Truthy(opt) == opt # None /\ opt[1] # 0

\* validate_patterns with the segwit script types open to every coin
validate_patterns_NoSegwitCheck(c, m) ==
    LET script_type == IF Truthy(m.script_type) THEN m.script_type[1] ELSE SPENDADDRESS
        multisig == m.multisig # None
        bitcoin == c.coin_name \in BITCOIN_NAMES
        green == IF bitcoin
                 THEN << PATTERN_GREENADDRESS_A, PATTERN_GREENADDRESS_B >>
                 ELSE << >>
    IN  IF script_type = SPENDADDRESS /\ ~multisig
        THEN << PATTERN_BIP44 >> \o green
        ELSE IF script_type \in {SPENDADDRESS, SPENDMULTISIG} /\ multisig
        THEN << PATTERN_BIP45, PATTERN_PURPOSE48 >> \o green
        ELSE IF script_type = SPENDP2SHWITNESS
        THEN << PATTERN_BIP49 >>
             \o (IF multisig THEN << PATTERN_PURPOSE48 >> ELSE << >>)
             \o green
             \o (IF bitcoin THEN << PATTERN_CASA >> ELSE << >>)
        ELSE IF script_type = SPENDWITNESS
        THEN << PATTERN_BIP84 >>
             \o (IF multisig THEN << PATTERN_PURPOSE48 >> ELSE << >>)
             \o green
        ELSE << >>

\* the list `patterns` when line 84 is reached
validate_patterns(c, m) ==
    LET script_type == IF Truthy(m.script_type) THEN m.script_type[1] ELSE SPENDADDRESS
        multisig == m.multisig # None
        bitcoin == c.coin_name \in BITCOIN_NAMES
        green == IF bitcoin
                 THEN << PATTERN_GREENADDRESS_A, PATTERN_GREENADDRESS_B >>
                 ELSE << >>
    IN  IF script_type = SPENDADDRESS /\ ~multisig
        THEN << PATTERN_BIP44 >> \o green
        ELSE IF script_type \in {SPENDADDRESS, SPENDMULTISIG} /\ multisig
        THEN << PATTERN_BIP45, PATTERN_PURPOSE48 >> \o green
        ELSE IF c.segwit /\ script_type = SPENDP2SHWITNESS
        THEN << PATTERN_BIP49 >>
             \o (IF multisig THEN << PATTERN_PURPOSE48 >> ELSE << >>)
             \o green
             \o (IF bitcoin THEN << PATTERN_CASA >> ELSE << >>)
        ELSE IF c.segwit /\ script_type = SPENDWITNESS
        THEN << PATTERN_BIP84 >>
             \o (IF multisig THEN << PATTERN_PURPOSE48 >> ELSE << >>)
             \o green
        ELSE << >>

\* validate_input_script_type that also binds the templates to coin type 0
\* for a coin with a fork id, as get_schemas_for_coin does
validate_input_script_type_ForkZero(c, m) ==
    LET ps == validate_patterns(c, m)
    IN  \E k \in 1..Len(ps) :
          \/ Match(PathSchema(ps[k], c.slip44), m.address_n)
          \/ c.fork_id # None /\ Match(PathSchema(ps[k], 0), m.address_n)

validate_input_script_type(c, m) ==
    LET ps == validate_patterns(c, m)
    IN  \E k \in 1..Len(ps) : Match(PathSchema(ps[k], c.slip44), m.address_n)

(***************************************************************************)
(* get_schemas_for_coin                                                    *)
(***************************************************************************)
\* schema_patterns without PATTERN_CASA among the compatibility patterns
schema_patterns_NoCasa(c) ==
    << PATTERN_BIP44, PATTERN_BIP45, PATTERN_PURPOSE48 >>
    \o (IF c.coin_name \in BITCOIN_NAMES
        THEN << PATTERN_GREENADDRESS_A, PATTERN_GREENADDRESS_B,
                PATTERN_GREENADDRESS_SIGN_A, PATTERN_GREENADDRESS_SIGN_B >>
        ELSE << >>)
    \o (IF c.segwit THEN << PATTERN_BIP49, PATTERN_BIP84 >> ELSE << >>)

\* schema_patterns with the segwit patterns given to every coin
schema_patterns_AlwaysSegwit(c) ==
    << PATTERN_BIP44, PATTERN_BIP45, PATTERN_PURPOSE48 >>
    \o (IF c.coin_name \in BITCOIN_NAMES
        THEN << PATTERN_GREENADDRESS_A, PATTERN_GREENADDRESS_B,
                PATTERN_GREENADDRESS_SIGN_A, PATTERN_GREENADDRESS_SIGN_B,
                PATTERN_CASA >>
        ELSE << >>)
    \o << PATTERN_BIP49, PATTERN_BIP84 >>

\* schema_patterns that tests coin_name == "Bitcoin" instead of BITCOIN_NAMES
schema_patterns_OnlyBitcoin(c) ==
    << PATTERN_BIP44, PATTERN_BIP45, PATTERN_PURPOSE48 >>
    \o (IF c.coin_name = "Bitcoin"
        THEN << PATTERN_GREENADDRESS_A, PATTERN_GREENADDRESS_B,
                PATTERN_GREENADDRESS_SIGN_A, PATTERN_GREENADDRESS_SIGN_B,
                PATTERN_CASA >>
        ELSE << >>)
    \o (IF c.segwit THEN << PATTERN_BIP49, PATTERN_BIP84 >> ELSE << >>)

\* the list `patterns` when line 113 is reached
schema_patterns(c) ==
    << PATTERN_BIP44, PATTERN_BIP45, PATTERN_PURPOSE48 >>
    \o (IF c.coin_name \in BITCOIN_NAMES
        THEN << PATTERN_GREENADDRESS_A, PATTERN_GREENADDRESS_B,
                PATTERN_GREENADDRESS_SIGN_A, PATTERN_GREENADDRESS_SIGN_B,
                PATTERN_CASA >>
        ELSE << >>)
    \o (IF c.segwit THEN << PATTERN_BIP49, PATTERN_BIP84 >> ELSE << >>)

\* get_schemas_for_coin with `if coin.fork_id:` for `is not None`
get_schemas_for_coin_Truthy(c) ==
    LET ps == schema_patterns(c)
    IN  [k \in 1..Len(ps) |-> PathSchema(ps[k], c.slip44)]
        \o (IF Truthy(c.fork_id)
            THEN [k \in 1..Len(ps) |-> PathSchema(ps[k], 0)]
            ELSE << >>)

get_schemas_for_coin(c) ==
    LET ps == schema_patterns(c)
    IN  [k \in 1..Len(ps) |-> PathSchema(ps[k], c.slip44)]
        \o (IF c.fork_id # None
            THEN [k \in 1..Len(ps) |-> PathSchema(ps[k], 0)]
            ELSE << >>)

\* Keychain.is_in_keychain: some schema of the keychain matches the path
is_in_keychain(ss, path) == \E k \in 1..Len(ss) : Match(ss[k], path)

(***************************************************************************)
(* Inputs: coin metadata, requests and derivation paths.                   *)
(***************************************************************************)
SlipValues == { 0, 1, 145 }

CoinInfos ==
    [ coin_name : { "Bitcoin", "Testnet", "Bcash" },
      slip44 : SlipValues,
      curve_name : { "secp256k1" },
      segwit : BOOLEAN,
      fork_id : { None, Some(0), Some(79) } ]

Bitcoin ==
    [ coin_name |-> "Bitcoin", slip44 |-> 0, curve_name |-> "secp256k1",
      segwit |-> TRUE, fork_id |-> None ]
Testnet ==
    [ coin_name |-> "Testnet", slip44 |-> 1, curve_name |-> "secp256k1",
      segwit |-> TRUE, fork_id |-> None ]
Bcash ==
    [ coin_name |-> "Bcash", slip44 |-> 145, curve_name |-> "secp256k1",
      segwit |-> FALSE, fork_id |-> Some(0) ]

Min(S) == CHOOSE x \in S : \A y \in S : x <= y
Max(S) == CHOOSE x \in S : \A y \in S : y <= x

\* values at and next to the edges of a container
Boundary(c) ==
    IF c.kind = "range"
    THEN { c.a - 1, c.a, c.b, c.b + 1 } \cap Nat
    ELSE (c.s \cup { Min(c.s) - 1, Max(c.s) + 1 }) \cap Nat

Containers(pattern, slip44) ==
    LET cs == Components(pattern)
    IN  [k \in 1..Len(cs) |-> Container(cs[k], slip44)]

\* the path that takes the least admitted value of every component
BasePath(cts) ==
    [k \in 1..Len(cts) |->
        [n |-> IF cts[k].kind = "range" THEN cts[k].a ELSE Min(cts[k].s),
         h |-> cts[k].h]]

Zero == [n |-> 0, h |-> FALSE]

RECURSIVE Zeros(_)
Zeros(k) == IF k = 0 THEN << >> ELSE << Zero >> \o Zeros(k - 1)

\* a base path, with one component moved to an edge value or its flag flipped,
\* or cut short, or continued
PathsOf(cts) ==
    LET p == BasePath(cts)
    IN  UNION { { [p EXCEPT ![k] = [n |-> v, h |-> hh]] :
                    v \in Boundary(cts[k]), hh \in BOOLEAN } : k \in 1..Len(cts) }
        \cup { SubSeq(p, 1, j) : j \in 0..Len(p) }
        \cup { p \o Zeros(j) : j \in 1..MaxExtra }

TestPaths ==
    UNION { PathsOf(Containers(pattern, ct)) : pattern \in AllPatterns, ct \in SlipValues }

ScriptTypes ==
    { None, Some(SPENDADDRESS), Some(SPENDMULTISIG), Some(EXTERNAL),
      Some(SPENDWITNESS), Some(SPENDP2SHWITNESS) }

Msgs ==
    [ address_n : TestPaths,
      script_type : ScriptTypes,
      multisig : { None, Some("MultisigRedeemScriptType") } ]

NoMsg == [ address_n |-> << >>, script_type |-> None, multisig |-> None ]

(***************************************************************************)
(* get_coin_by_name and the coin registry                                  *)
(***************************************************************************)
Registry == { Bitcoin, Testnet, Bcash }

CoinNames == { None, Some("Bitcoin"), Some("Testnet"), Some("Bcash"), Some("Dogecoin2") }

\* an exception, and the call that raised it
Raised(type, where) == [type |-> type, raised_in |-> where]

\* coininfo.by_name: the coin of that name, or ValueError
by_name(name) ==
    IF \E c \in Registry : c.coin_name = name
    THEN [coin |-> Some(CHOOSE c \in Registry : c.coin_name = name), error |-> None]
    ELSE [coin |-> None, error |-> Some(Raised("ValueError", "by_name"))]

\* get_coin_by_name that falls back to Bitcoin for an unknown name too
get_coin_by_name_Default(coin_name) ==
    LET name == IF coin_name = None THEN "Bitcoin" ELSE coin_name[1]
        r == by_name(name)
    IN  IF r.error # None THEN by_name("Bitcoin") ELSE r

get_coin_by_name(coin_name) ==
    LET name == IF coin_name = None THEN "Bitcoin" ELSE coin_name[1]
        r == by_name(name)
    IN  IF r.error # None /\ r.error[1].type = "ValueError"
        THEN [coin |-> None, error |-> Some(Raised("DataError", "get_coin_by_name"))]
        ELSE r

(***************************************************************************)
(* with_keychain: the invocations of wrapper                               *)
(***************************************************************************)
Invocations == 1..MaxInvocations

\* the keychain an authorization carries: acquired before, by its issuer
TokenKeychain == 1
Authorization == [keychain |-> TokenKeychain, coin_name |-> "Bitcoin"]
Authorizations == { None, Some(Authorization) }

Requests == [coin_name : CoinNames, authorization : Authorizations]

NoCalls == [by_name |-> 0, get_schemas_for_coin |-> 0, get_keychain |-> 0, func |-> 0]
NoLocal == [keychain |-> None, coin |-> None]

\* the authorization used only for a request that names its coin
HasAuthorization_SameCoin(r) ==
    /\ r.authorization # None
    /\ r.coin_name = Some(r.authorization[1].coin_name)

\* `if authorization:`
HasAuthorization(r) == r.authorization # None

\* get_keychain returns: a new Keychain over the seed, for the schemas passed
NewKeychain(i, args) ==
    [active |-> TRUE, schemas |-> args.schemas, curve_name |-> args.curve_name,
     acquired_by |-> i, released_by |-> 0]

\* the keychain kept in one place shared by all invocations
Resume_Shared(i, k) == [j \in DOMAIN local |-> [local[j] EXCEPT !.keychain = Some(k)]]

\* the wrapper's locals once `await get_keychain_for_coin(...)` has returned k
Resume(i, k) == [local EXCEPT ![i].keychain = Some(k)]

\* Keychain.__exit__ of `with keychain:`: clear()
Release(i, k) == [keychains EXCEPT ![k].active = FALSE, ![k].released_by = i]

\* the keychain released after func only when func returns
LeaveWrapper_NoFinally(i, how) ==
    IF req[i].authorization # None \/ how # "returned"
    THEN keychains
    ELSE [keychains EXCEPT ![local[i].keychain[1]].active = FALSE,
                           ![local[i].keychain[1]].released_by = i]

\* leaving wrapper from the call of func: `how` is "returned", "raised" or
\* "cancelled"; the with statement of line 156 is left on each of them
LeaveWrapper(i, how) ==
    IF HasAuthorization(req[i])
    THEN keychains
    ELSE Release(i, local[i].keychain[1])

\* wrapper called with an authorization: lines 150-153
CallAuthorized(i, r) ==
    /\ pc[i] = "idle"
    /\ HasAuthorization(r)
    /\ req' = [req EXCEPT ![i] = r]
    /\ LET res == get_coin_by_name(r.coin_name)
           keychain == r.authorization[1].keychain
       IN  IF res.error # None
           THEN /\ pc' = [pc EXCEPT ![i] = "raised"]
                /\ error' = [error EXCEPT ![i] = res.error]
                /\ local' = [local EXCEPT ![i].keychain = Some(keychain)]
                /\ calls' = [calls EXCEPT ![i].by_name = @ + 1]
                /\ UNCHANGED handler_args
           ELSE /\ pc' = [pc EXCEPT ![i] = "handler"]
                /\ local' = [local EXCEPT ![i] = [keychain |-> Some(keychain), coin |-> res.coin]]
                /\ handler_args' = [handler_args EXCEPT ![i] =
                       Some([keychain |-> keychain, coin |-> res.coin[1],
                             authorization |-> r.authorization])]
                /\ calls' = [calls EXCEPT ![i].by_name = @ + 1, ![i].func = @ + 1]
                /\ UNCHANGED error
    /\ UNCHANGED <<pending, keychains>>
    /\ UNCHANGED pathVars

\* wrapper called without one: line 155, get_keychain_for_coin up to its await
CallAcquire(i, r) ==
    /\ pc[i] = "idle"
    /\ ~HasAuthorization(r)
    /\ req' = [req EXCEPT ![i] = r]
    /\ LET res == get_coin_by_name(r.coin_name)
       IN  IF res.error # None
           THEN /\ pc' = [pc EXCEPT ![i] = "raised"]
                /\ error' = [error EXCEPT ![i] = res.error]
                /\ calls' = [calls EXCEPT ![i].by_name = @ + 1]
                /\ UNCHANGED <<local, pending>>
           ELSE /\ pc' = [pc EXCEPT ![i] = "acquiring"]
                /\ local' = [local EXCEPT ![i].coin = res.coin]
                /\ pending' = [pending EXCEPT ![i] =
                       Some([curve_name |-> res.coin[1].curve_name,
                             schemas |-> get_schemas_for_coin(res.coin[1]),
                             slip21_namespaces |-> << << "SLIP-0019" >> >>])]
                /\ calls' = [calls EXCEPT ![i].by_name = @ + 1,
                                          ![i].get_schemas_for_coin = @ + 1,
                                          ![i].get_keychain = @ + 1]
                /\ UNCHANGED error
    /\ UNCHANGED <<handler_args, keychains>>
    /\ UNCHANGED pathVars

\* get_keychain returns; `with keychain:` is entered and func is called
AcquireOk(i) ==
    /\ pc[i] = "acquiring"
    /\ LET k == Len(keychains) + 1
       IN  /\ keychains' = Append(keychains, NewKeychain(i, pending[i][1]))
           /\ local' = Resume(i, k)
           /\ handler_args' = [handler_args EXCEPT ![i] =
                  Some([keychain |-> local'[i].keychain[1], coin |-> local[i].coin[1],
                        authorization |-> None])]
    /\ pending' = [pending EXCEPT ![i] = None]
    /\ pc' = [pc EXCEPT ![i] = "handler"]
    /\ calls' = [calls EXCEPT ![i].func = @ + 1]
    /\ UNCHANGED <<req, error>>
    /\ UNCHANGED pathVars

\* get_keychain raises (the user cancels, the host is gone)
AcquireFail(i, e) ==
    /\ pc[i] = "acquiring"
    /\ pending' = [pending EXCEPT ![i] = None]
    /\ pc' = [pc EXCEPT ![i] = "raised"]
    /\ error' = [error EXCEPT ![i] = Some(Raised(e, "get_keychain"))]
    /\ UNCHANGED <<req, local, handler_args, keychains, calls>>
    /\ UNCHANGED pathVars

\* the task is closed while it waits in get_keychain
AcquireCancel(i) ==
    /\ pc[i] = "acquiring"
    /\ pending' = [pending EXCEPT ![i] = None]
    /\ pc' = [pc EXCEPT ![i] = "cancelled"]
    /\ UNCHANGED <<req, local, handler_args, error, keychains, calls>>
    /\ UNCHANGED pathVars

\* func returns
HandlerReturn(i) ==
    /\ pc[i] = "handler"
    /\ keychains' = LeaveWrapper(i, "returned")
    /\ pc' = [pc EXCEPT ![i] = "returned"]
    /\ UNCHANGED <<req, local, pending, handler_args, error, calls>>
    /\ UNCHANGED pathVars

\* func raises
HandlerRaise(i, e) ==
    /\ pc[i] = "handler"
    /\ keychains' = LeaveWrapper(i, "raised")
    /\ pc' = [pc EXCEPT ![i] = "raised"]
    /\ error' = [error EXCEPT ![i] = Some(Raised(e, "func"))]
    /\ UNCHANGED <<req, local, pending, handler_args, calls>>
    /\ UNCHANGED pathVars

\* the task is closed while func waits
HandlerCancel(i) ==
    /\ pc[i] = "handler"
    /\ keychains' = LeaveWrapper(i, "cancelled")
    /\ pc' = [pc EXCEPT ![i] = "cancelled"]
    /\ UNCHANGED <<req, local, pending, handler_args, error, calls>>
    /\ UNCHANGED pathVars

(***************************************************************************)
(* One coin and one request through the schema builder and the validator.  *)
(***************************************************************************)
GetSchemas ==
    /\ schemas = << >>
    /\ patterns' = schema_patterns(coin)
    /\ schemas' = get_schemas_for_coin(coin)
    /\ UNCHANGED <<coin, msg, valid, in_keychain>>
    /\ UNCHANGED wireVars

\* a handler checks the path of a request: validate_input_script_type, and the
\* keychain's own check on derivation
CheckPath ==
    /\ schemas # << >>
    /\ msg = None
    /\ \E m \in Msgs :
          /\ msg' = Some(m)
          /\ valid' = validate_input_script_type(coin, m)
          /\ in_keychain' = is_in_keychain(schemas, m.address_n)
    /\ UNCHANGED <<coin, patterns, schemas>>
    /\ UNCHANGED wireVars

(***************************************************************************)
(* Specifications.                                                         *)
(***************************************************************************)
WireInit ==
    /\ pc = [i \in Invocations |-> "idle"]
    /\ req = [i \in Invocations |-> [coin_name |-> None, authorization |-> None]]
    /\ local = [i \in Invocations |-> NoLocal]
    /\ pending = [i \in Invocations |-> None]
    /\ handler_args = [i \in Invocations |-> None]
    /\ error = [i \in Invocations |-> None]
    /\ calls = [i \in Invocations |-> NoCalls]
    /\ keychains = << [active |-> TRUE, schemas |-> << >>, curve_name |-> "secp256k1",
                       acquired_by |-> 0, released_by |-> 0] >>

PathInit ==
    /\ msg = None
    /\ patterns = << >>
    /\ schemas = << >>
    /\ valid = FALSE
    /\ in_keychain = FALSE

Init ==
    /\ coin = Bitcoin
    /\ PathInit
    /\ WireInit

Next ==
    \/ \E i \in Invocations, r \in Requests : CallAuthorized(i, r)
    \/ \E i \in Invocations, r \in Requests : CallAcquire(i, r)
    \/ \E i \in Invocations : AcquireOk(i)
    \/ \E i \in Invocations, e \in { "ActionCancelled", "ProcessError" } : AcquireFail(i, e)
    \/ \E i \in Invocations : AcquireCancel(i)
    \/ \E i \in Invocations : HandlerReturn(i)
    \/ \E i \in Invocations, e \in { "DataError", "ProcessError" } : HandlerRaise(i, e)
    \/ \E i \in Invocations : HandlerCancel(i)

Spec == Init /\ [][Next]_vars

InitPaths ==
    /\ coin \in CoinInfos
    /\ PathInit
    /\ WireInit

NextPaths ==
    \/ GetSchemas
    \/ CheckPath

SpecPaths == InitPaths /\ [][NextPaths]_vars

(***************************************************************************)
(* Properties of the dispatcher, checked under Spec.                       *)
(***************************************************************************)
Terminal == { "returned", "raised", "cancelled" }

Range_(f) == { f[x] : x \in DOMAIN f }

\* the keychains that invocation i acquired through get_keychain
AcquiredBy(i) == { k \in 1..Len(keychains) : keychains[k].acquired_by = i }

RegistryNames == { c.coin_name : c \in Registry }

\* the name that coin resolution looks up for a request
LookupName(r) == IF r.coin_name = None THEN "Bitcoin" ELSE r.coin_name[1]

\* C1: on the path without an authorization, an invocation that has ended
\* (func returned, func raised, or the task was cancelled) has no keychain of
\* its own still active: every keychain it acquired has been released.
C1_ReleasedOnEveryExit ==
    \A i \in Invocations :
        (pc[i] \in Terminal /\ req[i].authorization = None) =>
            /\ \A k \in AcquiredBy(i) : ~keychains[k].active
            /\ handler_args[i] # None =>
                  /\ handler_args[i][1].keychain \in AcquiredBy(i)
                  /\ keychains[handler_args[i][1].keychain].released_by = i

C1_Witness ==
    \E i, j \in Invocations :
        /\ req[i].authorization = None /\ req[j].authorization = None
        /\ pc[i] = "raised" /\ error[i][1].raised_in = "func"
        /\ pc[j] = "cancelled" /\ handler_args[j] # None
        /\ ~keychains[handler_args[i][1].keychain].active
        /\ ~keychains[handler_args[j][1].keychain].active

\* C2: an invocation called with an authorization never calls
\* get_schemas_for_coin nor get_keychain, acquires no keychain, and calls func
\* with the authorization's keychain, the coin named by the request and the
\* authorization itself.
C2_AuthorizedBypass ==
    \A i \in Invocations :
        req[i].authorization # None =>
            /\ calls[i].get_schemas_for_coin = 0
            /\ calls[i].get_keychain = 0
            /\ pending[i] = None
            /\ AcquiredBy(i) = {}
            /\ handler_args[i] # None =>
                  /\ handler_args[i][1].keychain = req[i].authorization[1].keychain
                  /\ handler_args[i][1].authorization = req[i].authorization
                  /\ handler_args[i][1].coin \in Registry
                  /\ handler_args[i][1].coin.coin_name = LookupName(req[i])

C2_Witness ==
    \E i \in Invocations :
        /\ req[i].authorization # None
        /\ req[i].coin_name = Some("Bcash")
        /\ pc[i] = "returned"
        /\ handler_args[i] # None
        /\ keychains[TokenKeychain].active

\* C3: when coin resolution fails, or get_keychain fails, the invocation ends
\* with that error, func is never called and the invocation has acquired no
\* keychain; a coin resolution failure comes before any call of
\* get_schemas_for_coin or get_keychain.
C3_FailurePropagates ==
    \A i \in Invocations :
        /\ (pc[i] # "idle" /\ LookupName(req[i]) \notin RegistryNames) =>
              /\ pc[i] = "raised"
              /\ error[i] = Some(Raised("DataError", "get_coin_by_name"))
              /\ calls[i].get_schemas_for_coin = 0
              /\ calls[i].get_keychain = 0
              /\ calls[i].func = 0
              /\ handler_args[i] = None
              /\ AcquiredBy(i) = {}
        /\ (error[i] # None /\ error[i][1].raised_in = "get_keychain") =>
              /\ pc[i] = "raised"
              /\ error[i][1].type \in { "ActionCancelled", "ProcessError" }
              /\ calls[i].func = 0
              /\ handler_args[i] = None
              /\ local[i].keychain = None
              /\ AcquiredBy(i) = {}

C3_Witness ==
    \E i, j \in Invocations :
        /\ req[i].coin_name = Some("Dogecoin2") /\ req[i].authorization = None
        /\ pc[i] = "raised"
        /\ pc[j] = "raised"
        /\ error[j] = Some(Raised("ActionCancelled", "get_keychain"))

\* C9: whatever the interleaving, func of an invocation without authorization
\* is called with the keychain that this invocation's own get_keychain call
\* returned, which holds the schemas of this invocation's coin; a keychain is
\* released only by the invocation that acquired it.
C9_NoKeychainLeak ==
    /\ \A i \in Invocations :
          (req[i].authorization = None /\ handler_args[i] # None) =>
              LET a == handler_args[i][1]
              IN  /\ a.keychain \in AcquiredBy(i)
                  /\ a.coin.coin_name = LookupName(req[i])
                  /\ keychains[a.keychain].schemas = get_schemas_for_coin(a.coin)
                  /\ keychains[a.keychain].curve_name = a.coin.curve_name
                  /\ local[i].keychain = Some(a.keychain)
    /\ \A k \in 1..Len(keychains) :
          keychains[k].released_by \in { 0, keychains[k].acquired_by }
    /\ \A i \in Invocations : Cardinality(AcquiredBy(i)) <= 1

C9_Witness ==
    /\ pc[1] = "handler" /\ pc[2] = "handler"
    /\ req[1].authorization = None /\ req[2].authorization = None
    /\ handler_args[1][1].coin = Bcash /\ handler_args[2][1].coin = Bitcoin
    /\ handler_args[2][1].keychain < handler_args[1][1].keychain
    /\ keychains[handler_args[1][1].keychain].active
    /\ keychains[handler_args[2][1].keychain].active

(***************************************************************************)
(* Properties of the schema builder and the validator, checked under       *)
(* SpecPaths.                                                              *)
(***************************************************************************)
Checked == msg # None
Path == msg[1].address_n
BitcoinLike == coin.coin_name \in BITCOIN_NAMES

\* the script type and multisig flag that the decision table is read with
DeclaredType == IF msg[1].script_type = None THEN SPENDADDRESS ELSE msg[1].script_type[1]
DeclaredMultisig == msg[1].multisig # None

LegacyGeneric == { PATTERN_GREENADDRESS_A, PATTERN_GREENADDRESS_B }
LegacySigning == { PATTERN_GREENADDRESS_SIGN_A, PATTERN_GREENADDRESS_SIGN_B }

\* the templates of the one row of the decision table that the request selects
TableRow ==
    LET legacy == IF BitcoinLike THEN LegacyGeneric ELSE {}
        p48 == IF DeclaredMultisig THEN { PATTERN_PURPOSE48 } ELSE {}
        casa == IF BitcoinLike THEN { PATTERN_CASA } ELSE {}
    IN  CASE DeclaredType = SPENDADDRESS /\ ~DeclaredMultisig ->
               { PATTERN_BIP44 } \cup legacy
          [] DeclaredType \in { SPENDADDRESS, SPENDMULTISIG } /\ DeclaredMultisig ->
               { PATTERN_BIP45, PATTERN_PURPOSE48 } \cup legacy
          [] DeclaredType = SPENDP2SHWITNESS /\ coin.segwit ->
               { PATTERN_BIP49 } \cup p48 \cup casa \cup legacy
          [] DeclaredType = SPENDWITNESS /\ coin.segwit ->
               { PATTERN_BIP84 } \cup p48 \cup legacy
          [] OTHER -> {}

\* C4: the validator's answer is true exactly when the path matches a template
\* of the decision-table row selected by (script type, multisig, coin.segwit),
\* bound to coin.slip44; a segwit script type on a coin without segwit, and
\* SPENDMULTISIG without a multisig descriptor, give false for every path.
C4_DecisionTable ==
    Checked =>
        /\ valid = (\E p \in TableRow : Match(PathSchema(p, coin.slip44), Path))
        /\ (DeclaredType \in { SPENDP2SHWITNESS, SPENDWITNESS } /\ ~coin.segwit) => ~valid
        /\ (DeclaredType = SPENDMULTISIG /\ ~DeclaredMultisig) => ~valid
        /\ DeclaredType = EXTERNAL => ~valid

C4_Witness ==
    /\ Checked
    /\ msg[1].script_type = Some(SPENDWITNESS)
    /\ DeclaredMultisig
    /\ Match(PathSchema(PATTERN_PURPOSE48, coin.slip44), Path)
    /\ valid

Bip44OnBitcoinPath ==
    << [n |-> 44, h |-> TRUE], [n |-> 0, h |-> TRUE], [n |-> 0, h |-> TRUE],
       [n |-> 0, h |-> FALSE], [n |-> 0, h |-> FALSE] >>

\* C5: for a coin with a fork id the schema set holds every collected template
\* bound to coin.slip44 and bound to 0; for a coin without one it holds only
\* schemas bound to coin.slip44. So Bitcoin Cash accepts 44'/0'/0'/0/0.
C5_ForkIdDuplication ==
    schemas # << >> =>
        /\ coin.fork_id # None =>
              \A p \in Range_(patterns) :
                  /\ PathSchema(p, coin.slip44) \in Range_(schemas)
                  /\ PathSchema(p, 0) \in Range_(schemas)
        /\ coin.fork_id = None =>
              \A k \in 1..Len(schemas) : schemas[k].slip44 = coin.slip44
        /\ \A k \in 1..Len(schemas) :
              /\ schemas[k].slip44 \in { coin.slip44, 0 }
              /\ schemas[k].pattern \in Range_(patterns)
        /\ (Checked /\ coin = Bcash /\ Path = Bip44OnBitcoinPath) => in_keychain

C5_Witness ==
    /\ Checked
    /\ coin = Bcash
    /\ Path = Bip44OnBitcoinPath
    /\ msg[1].script_type = Some(SPENDMULTISIG)
    /\ in_keychain

\* C6: the schema set of a coin named in BITCOIN_NAMES holds the four legacy
\* templates (two generic, two signing); the schema set of any other coin
\* holds none of them.
C6_LegacyTemplates ==
    schemas # << >> =>
        /\ BitcoinLike =>
              \A p \in LegacyGeneric \cup LegacySigning :
                  PathSchema(p, coin.slip44) \in Range_(schemas)
        /\ ~BitcoinLike =>
              \A k \in 1..Len(schemas) :
                  schemas[k].pattern \notin LegacyGeneric \cup LegacySigning

C6_Witness ==
    /\ Checked
    /\ coin.coin_name = "Testnet"
    /\ Match(PathSchema(PATTERN_GREENADDRESS_SIGN_B, coin.slip44), Path)
    /\ in_keychain

BaseTemplates == { PATTERN_BIP44, PATTERN_BIP45, PATTERN_PURPOSE48 }
SegwitTemplates == { PATTERN_BIP49, PATTERN_BIP84 }

NoDuplicates(seq) == Cardinality(Range_(seq)) = Len(seq)

\* C7 as the specification states it: the collected templates are the three base templates, four
\* compatibility templates iff the coin is Bitcoin-like, BIP-49 and BIP-84 iff
\* the coin has segwit, and nothing else (3, 5, 7 or 9 templates).
C7_FourCompatTemplates ==
    schemas # << >> =>
        /\ Range_(patterns) =
              BaseTemplates
              \cup (IF BitcoinLike THEN LegacyGeneric \cup LegacySigning ELSE {})
              \cup (IF coin.segwit THEN SegwitTemplates ELSE {})
        /\ Len(patterns) =
              3 + (IF BitcoinLike THEN 4 ELSE 0) + (IF coin.segwit THEN 2 ELSE 0)
        /\ PathSchema(PATTERN_BIP44, coin.slip44) \in Range_(schemas)

\* C7, amended: the collected templates are the three base templates, five
\* compatibility templates (the four legacy ones and the Casa template) iff the
\* coin is Bitcoin-like, BIP-49 and BIP-84 iff the coin has segwit, and nothing
\* else (3, 5, 8 or 10 templates, none twice); the schema set is never empty
\* and holds BIP-44 bound to coin.slip44.
C7_FiveCompatTemplates ==
    schemas # << >> =>
        /\ Range_(patterns) =
              BaseTemplates
              \cup (IF BitcoinLike
                    THEN LegacyGeneric \cup LegacySigning \cup { PATTERN_CASA }
                    ELSE {})
              \cup (IF coin.segwit THEN SegwitTemplates ELSE {})
        /\ Len(patterns) =
              3 + (IF BitcoinLike THEN 5 ELSE 0) + (IF coin.segwit THEN 2 ELSE 0)
        /\ NoDuplicates(patterns)
        /\ PathSchema(PATTERN_BIP44, coin.slip44) \in Range_(schemas)

C7_Witness ==
    /\ schemas # << >>
    /\ BitcoinLike
    /\ ~coin.segwit
    /\ Len(patterns) = 8
    /\ PATTERN_CASA \in Range_(patterns)

\* the templates that have a coin_type component
HasCoinType(p) == \E k \in 1..Len(Components(p)) : Components(p)[k].kind = "coin_type"

\* C8: the validator binds its templates to coin.slip44 only. For a coin with
\* a fork id and slip44 # 0, a path on coin type 0 that matches a template of
\* the selected row is refused by the validator and accepted by the keychain's
\* schema set (Bitcoin Cash, 44'/0'/0'/0/0, SPENDADDRESS, no multisig).
C8_ValidatorIgnoresForkId ==
    Checked =>
        /\ valid => \E p \in AllPatterns : Match(PathSchema(p, coin.slip44), Path)
        /\ (coin.fork_id # None /\ coin.slip44 # 0) =>
              \A p \in TableRow :
                  (HasCoinType(p) /\ Match(PathSchema(p, 0), Path)) =>
                      ~valid /\ in_keychain

C8_Witness ==
    /\ Checked
    /\ coin = Bcash
    /\ Path = Bip44OnBitcoinPath
    /\ msg[1].script_type = Some(SPENDADDRESS)
    /\ msg[1].multisig = None
    /\ in_keychain
    /\ ~valid

\* C10: a path that the validator accepts is matched by a schema of the schema
\* set built for the same coin.
C10_ValidatorWithinScope ==
    (Checked /\ valid) => in_keychain

C10_Witness ==
    /\ Checked
    /\ valid
    /\ in_keychain
    /\ msg[1].script_type = Some(SPENDP2SHWITNESS)
    /\ Match(PathSchema(PATTERN_CASA, coin.slip44), Path)

====
